---- MODULE Spec2Model ----
(***************************************************************************)
(* Model of spreadsheet_compiler.py: clean_dataframe (the header/metadata  *)
(* heuristic) and compile_xlsx_to_csv (read, combine, write, archive).     *)
(*                                                                         *)
(* Text is modelled as a sequence of one-character strings so that         *)
(* str.upper(), `in` (substring) and str.contains() are computed, not      *)
(* assumed.  A DataFrame is a record [columns, rows]: the column labels    *)
(* and the rows in index order, every row as long as the column list.      *)
(***************************************************************************)
EXTENDS Integers, Sequences, FiniteSets, TLC

\* ------------------------------------------------------------- bounds
\* Largest number of .xlsx files in the ready folder.
MaxFiles == 3
\* Largest number of rows of a DataFrame handed to clean_dataframe.
MaxRows == 3
\* Largest number of columns of a DataFrame handed to clean_dataframe.
MaxCols == 6

\* --------------------------------------------------------------- text
\* NaN / None cell (pd.isna): a token that is no text.
NaN == <<"<NaN>">>

LowerCase == <<"a","b","c","d","e","f","g","h","i","j","k","l","m",
               "n","o","p","q","r","s","t","u","v","w","x","y","z">>
UpperCase == <<"A","B","C","D","E","F","G","H","I","J","K","L","M",
               "N","O","P","Q","R","S","T","U","V","W","X","Y","Z">>

\* the upper-case letter of every lower-case letter
UpperOf ==
    [c \in {LowerCase[k] : k \in DOMAIN LowerCase} |->
        UpperCase[CHOOSE k \in DOMAIN LowerCase : LowerCase[k] = c]]

\* str.upper() on one character
UpperChar(c) == IF c \in DOMAIN UpperOf THEN UpperOf[c] ELSE c

\* str.upper()
upper(s) == [k \in DOMAIN s |-> UpperChar(s[k])]

\* str(cell) / astype(str): a missing cell prints as "nan"
str_nan == <<"n", "a", "n">>
str(cell) == IF cell = NaN THEN str_nan ELSE cell

\* pd.notna(cell)
notna(cell) == cell # NaN

\* `kw in s` and, for a pattern without regex metacharacters,
\* Series.str.contains(kw): kw occurs in s as a contiguous substring
contains(s, kw) ==
    \E off \in 0..(Len(s) - Len(kw)) :
        \A k \in 1..Len(kw) : s[off + k] = kw[k]

RECURSIVE join(_)
\* ' '.join(parts)
join(parts) ==
    IF parts = <<>> THEN <<>>
    ELSE IF Len(parts) = 1 THEN parts[1]
    ELSE parts[1] \o <<" ">> \o join(Tail(parts))

\* ------------------------------------------------------- vocabularies
kw_CUSTOMER_INVOICE_NUMBER == <<"C", "U", "S", "T", "O", "M", "E", "R", "_", "I", "N", "V", "O", "I", "C", "E", "_", "N", "U", "M", "B", "E", "R">>
kw_ID == <<"I", "D">>
kw_INVOICE == <<"I", "N", "V", "O", "I", "C", "E">>
kw_CUSTOMER == <<"C", "U", "S", "T", "O", "M", "E", "R">>
kw_BILLING == <<"B", "I", "L", "L", "I", "N", "G">>
kw_CURRENCY == <<"C", "U", "R", "R", "E", "N", "C", "Y">>
kw_DATE == <<"D", "A", "T", "E">>
kw_AMOUNT == <<"A", "M", "O", "U", "N", "T">>
kw_FEE == <<"F", "E", "E">>
kw_CHARGE == <<"C", "H", "A", "R", "G", "E">>
kw_Monthly_Billing_Summary == <<"M", "o", "n", "t", "h", "l", "y", " ", "B", "i", "l", "l", "i", "n", "g", " ", "S", "u", "m", "m", "a", "r", "y">>
kw_Report == <<"R", "e", "p", "o", "r", "t">>
kw_TOTAL == <<"T", "O", "T", "A", "L">>
kw_Summary == <<"S", "u", "m", "m", "a", "r", "y">>
kw_Generated == <<"G", "e", "n", "e", "r", "a", "t", "e", "d">>
kw_Period == <<"P", "e", "r", "i", "o", "d">>
kw_Currency == <<"C", "u", "r", "r", "e", "n", "c", "y">>
kw_Page == <<"P", "a", "g", "e">>
kw_Generated_on == <<"G", "e", "n", "e", "r", "a", "t", "e", "d", " ", "o", "n">>
kw_Period_colon == <<"P", "e", "r", "i", "o", "d", ":">>
kw_Currency_colon == <<"C", "u", "r", "r", "e", "n", "c", "y", ":">>

\* header_indicators of clean_dataframe
header_indicators ==
    << kw_CUSTOMER_INVOICE_NUMBER, kw_ID, kw_INVOICE, kw_CUSTOMER, kw_BILLING,
       kw_CURRENCY, kw_DATE, kw_AMOUNT, kw_FEE, kw_CHARGE >>

\* metadata_keywords of the header-found branch
metadata_keywords_header ==
    << kw_Monthly_Billing_Summary, kw_Report, kw_TOTAL, kw_Summary,
       kw_Generated, kw_Period, kw_Currency, kw_Page >>

\* metadata_keywords of the no-header branch
metadata_keywords_general ==
    << kw_Monthly_Billing_Summary, kw_Report, kw_Generated_on,
       kw_Period_colon, kw_Currency_colon >>

\* ---------------------------------------------------------- DataFrame
Range(seq) == {seq[k] : k \in DOMAIN seq}

\* df.empty: no columns or no rows
empty(df) == Len(df.columns) = 0 \/ Len(df.rows) = 0

\* position of the first column labelled c (0 when there is none)
ColPos(cols, c) ==
    IF \E k \in DOMAIN cols : cols[k] = c
    THEN CHOOSE k \in DOMAIN cols :
            cols[k] = c /\ \A m \in 1..(k - 1) : cols[m] # c
    ELSE 0

\* number of non-NA cells of a row (DataFrame.count(axis=1))
count(row) == Cardinality({k \in DOMAIN row : notna(row[k])})

\* ---------------------------------------------------- clean_dataframe
\* row_str: the upper-cased str() of the non-NA cells, joined by spaces
row_str(row) ==
    LET present == SelectSeq(row, notna)
    IN  join([k \in DOMAIN present |-> upper(str(present[k]))])

\* indicators_found: how many header indicators occur in row_str
indicators_found(row) ==
    LET s == row_str(row)
    IN  Cardinality({k \in DOMAIN header_indicators :
                        contains(s, header_indicators[k])})

\* A mutated header test: one indicator is taken to be enough.
looks_like_header_one_indicator(row) ==
    LET s == row_str(row)
    IN  /\ \E k \in DOMAIN header_indicators :
                contains(s, header_indicators[k])
        /\ indicators_found(row) >= 1

\* the two nested tests of the search loop: any indicator, then at least 2
looks_like_header(row) ==
    LET s == row_str(row)
    IN  /\ \E k \in DOMAIN header_indicators :
                contains(s, header_indicators[k])
        /\ indicators_found(row) >= 2

RECURSIVE search_header(_, _)
\* the search loop from 0-based row idx on: the index of the first row that
\* passes the test (break), or -1 for header_row_idx = None
search_header(rows, idx) ==
    IF idx >= Len(rows) THEN -1
    ELSE IF looks_like_header(rows[idx + 1]) THEN idx
    ELSE search_header(rows, idx + 1)

\* dropna(how='all'): a row survives unless every cell is NA
not_all_na(row) == \E k \in DOMAIN row : notna(row[k])

\* the first-column mask of the header-found branch:
\*   astype(str).str.upper().str.contains('|'.join(metadata_keywords))
\* The column is upper-cased, the pattern is used as written and the match
\* is case-sensitive: an alternative matches when it occurs in the
\* upper-cased text.
first_col_mask(cell) ==
    LET s == upper(str(cell))
    IN  \E k \in DOMAIN metadata_keywords_header :
            contains(s, metadata_keywords_header[k])

\* the header-found branch (header_row_idx is 0-based)
header_found_branch(df, header_row_idx) ==
    LET new_header == df.rows[header_row_idx + 1]
        data       == SubSeq(df.rows, header_row_idx + 2, Len(df.rows))
        dropped    == SelectSeq(data, not_all_na)
        first      == ColPos(new_header, new_header[1])
        keep(row)  == ~first_col_mask(row[first])
    IN  [columns |-> new_header,
         rows    |-> IF dropped = <<>> THEN dropped
                     ELSE SelectSeq(dropped, keep)]

\* the mask of one keyword in the no-header branch: any cell of the row,
\* printed and upper-cased, contains the upper-cased keyword
any_cell_mask(row, keyword_upper) ==
    \E k \in DOMAIN row : contains(upper(str(row[k])), keyword_upper)

RECURSIVE drop_metadata(_, _)
\* the keyword loop: rows masked by keyword k are removed, then keyword k+1
drop_metadata(rows, k) ==
    IF k > Len(metadata_keywords_general) THEN rows
    ELSE LET keyword_upper == upper(metadata_keywords_general[k])
             keep(row)     == ~any_cell_mask(row, keyword_upper)
         IN  drop_metadata(SelectSeq(rows, keep), k + 1)

\* A mutated threshold test: a row exactly at the threshold is dropped.
meets_thresh_strict(cnt, ncols) == 5 * cnt > ncols

\* dropna(thresh=len(columns) * 0.2) keeps a row when count >= thresh.  The
\* product is a double; for every column count below 2000 and every
\* integer count, count >= ncols * 0.2 in doubles is 5 * count >= ncols.
meets_thresh(cnt, ncols) == 5 * cnt >= ncols

\* the no-header branch
no_header_branch(df) ==
    LET kept      == drop_metadata(df.rows, 1)
        keep(row) == meets_thresh(count(row), Len(df.columns))
    IN  [columns |-> df.columns, rows |-> SelectSeq(kept, keep)]

\* clean_dataframe(df, filename) as one function
clean_dataframe(df) ==
    IF empty(df) THEN df
    ELSE LET header_row_idx == search_header(df.rows, 0)
         IN  IF header_row_idx # -1
             THEN header_found_branch(df, header_row_idx)
             ELSE no_header_branch(df)

\* ------------------------------------------------- pandas collaborators
Digits == <<"0", "1", "2", "3", "4", "5", "6", "7", "8", "9">>
str_source_file == <<"s", "o", "u", "r", "c", "e", "_", "f", "i", "l", "e">>
str_Unnamed == <<"U", "n", "n", "a", "m", "e", "d", ":", " ">>
str_xlsx == <<".", "x", "l", "s", "x">>

EmptyDF == [columns |-> <<>>, rows |-> <<>>]

\* pd.read_excel(path) with its defaults: the first sheet row gives the
\* column labels (a blank label becomes "Unnamed: <0-based position>"), the
\* rows below it are the data.  The sheets modelled have distinct labels.
read_excel(raw) ==
    IF raw = <<>> THEN EmptyDF
    ELSE [columns |-> [k \in DOMAIN raw[1] |->
                          IF raw[1][k] = NaN
                          THEN str_Unnamed \o <<Digits[k]>>
                          ELSE raw[1][k]],
          rows    |-> Tail(raw)]

\* df['source_file'] = name: a new last column, or the existing column of
\* that label overwritten in place
with_source_file(df, name) ==
    LET pos == ColPos(df.columns, str_source_file)
    IN  IF pos = 0
        THEN [columns |-> Append(df.columns, str_source_file),
              rows    |-> [k \in DOMAIN df.rows |-> Append(df.rows[k], name)]]
        ELSE [columns |-> df.columns,
              rows    |-> [k \in DOMAIN df.rows |->
                              [df.rows[k] EXCEPT ![pos] = name]]]

RECURSIVE union_columns(_, _)
\* the outer-join column index of pd.concat (sort=False): labels in the
\* order they are first seen, frame by frame
union_columns(dfs, acc) ==
    IF dfs = <<>> THEN acc
    ELSE LET new(c) == c \notin Range(acc)
         IN  union_columns(Tail(dfs), acc \o SelectSeq(Head(dfs).columns, new))

RECURSIVE common_columns(_, _)
\* the inner-join column index (join='inner'): labels every frame has
common_columns(dfs, acc) ==
    IF dfs = <<>> THEN acc
    ELSE LET shared(c) == c \in Range(Head(dfs).columns)
         IN  common_columns(Tail(dfs), SelectSeq(acc, shared))

\* one frame's rows re-indexed to the column list cols, NaN where the frame
\* has no such column
reindex(df, cols) ==
    [k \in DOMAIN df.rows |->
        [c \in DOMAIN cols |->
            IF ColPos(df.columns, cols[c]) = 0 THEN NaN
            ELSE df.rows[k][ColPos(df.columns, cols[c])]]]

RECURSIVE stack_rows(_, _)
stack_rows(dfs, cols) ==
    IF dfs = <<>> THEN <<>>
    ELSE reindex(Head(dfs), cols) \o stack_rows(Tail(dfs), cols)

\* A mutated concat: join='inner', only the columns all frames share.
pd_concat_inner(dfs) ==
    IF dfs = <<>> THEN EmptyDF
    ELSE LET cols == common_columns(Tail(dfs), Head(dfs).columns)
         IN  [columns |-> cols, rows |-> stack_rows(dfs, cols)]

\* pd.concat(all_dataframes, ignore_index=True)
pd_concat(dfs) ==
    LET cols == union_columns(dfs, <<>>)
    IN  [columns |-> cols, rows |-> stack_rows(dfs, cols)]

\* ------------------------------------------------------ input universes
txt_Acme == <<"A", "c", "m", "e">>
txt_Invoice == <<"I", "n", "v", "o", "i", "c", "e">>
txt_Amount == <<"A", "m", "o", "u", "n", "t">>
txt_Customer_Invoice_Number == <<"C", "u", "s", "t", "o", "m", "e", "r", "_", "I", "n", "v", "o", "i", "c", "e", "_", "N", "u", "m", "b", "e", "r">>
txt_Fee == <<"F", "e", "e">>
txt_Total == <<"T", "o", "t", "a", "l">>
txt_Period_Jan == <<"P", "e", "r", "i", "o", "d", ":", " ", "J", "a", "n">>
txt_1001 == <<"1", "0", "0", "1">>
txt_1002 == <<"1", "0", "0", "2">>
txt_Globex == <<"G", "l", "o", "b", "e", "x">>
txt_50 == <<"5", "0", ".", "0", "0">>
txt_10 == <<"1", "0", ".", "0", "0">>

\* Sheets as stored in a workbook, first sheet row first.
\* Sheet1 / Sheet2 of the end-to-end scenario
Sheet1 ==
    << <<kw_Monthly_Billing_Summary, NaN, NaN>>,
       <<kw_INVOICE, kw_CUSTOMER, kw_AMOUNT>>,
       <<txt_1001, txt_Acme, txt_50>> >>
Sheet2 ==
    << <<kw_INVOICE, kw_CUSTOMER, kw_FEE>>,
       <<txt_1002, txt_Globex, txt_10>> >>
\* columns [A, B] with two rows, columns [B, C] with one row
SheetAB ==
    << << <<"A">>, <<"B">> >>,
       << <<"a", "1">>, <<"b", "1">> >>,
       << <<"a", "2">>, NaN >> >>
SheetBC ==
    << << <<"B">>, <<"C">> >>,
       << <<"b", "3">>, <<"c", "3">> >> >>
\* a sheet that has a source_file column of its own
SheetSrc ==
    << << str_source_file, <<"A">> >>,
       << <<"x">>, <<"a", "4">> >> >>
\* a sheet with a header line and no data, and a blank sheet
SheetHeaderOnly == << << <<"A">>, <<"C">> >> >>
SheetBlank == <<>>

RawSheets ==
    {Sheet1, Sheet2, SheetAB, SheetBC, SheetSrc, SheetHeaderOnly, SheetBlank}

\* what a file of the ready folder holds: a workbook, or bytes read_excel
\* raises on
Contents ==
    {[readable |-> TRUE, raw |-> r] : r \in RawSheets}
        \cup {[readable |-> FALSE, raw |-> <<>>]}

\* the name of the k-th file the glob returns
FileName(k) == <<"f", Digits[k + 1]>> \o str_xlsx

\* Rows handed to clean_dataframe, by width w: the first cell, the last cell
\* (w >= 2) and the cells between them.
RowKinds ==
    { [first |-> NaN,         last |-> NaN,        fill |-> NaN],
      [first |-> txt_Acme,    last |-> NaN,        fill |-> NaN],
      [first |-> txt_Acme,    last |-> txt_Acme,   fill |-> NaN],
      [first |-> txt_Invoice, last |-> txt_Amount, fill |-> NaN],
      [first |-> txt_Customer_Invoice_Number, last |-> txt_Fee, fill |-> txt_Acme],
      [first |-> txt_Invoice, last |-> txt_Acme,   fill |-> txt_Acme],
      [first |-> txt_Total,   last |-> txt_Acme,   fill |-> txt_Acme],
      [first |-> kw_Report,   last |-> txt_Acme,   fill |-> txt_Acme],
      [first |-> txt_Acme,    last |-> txt_Period_Jan, fill |-> txt_Acme] }

MkRow(kind, w) ==
    [p \in 1..w |-> IF p = 1 THEN kind.first
                    ELSE IF p = w THEN kind.last ELSE kind.fill]

\* column labels read_excel gave the frame: "A", "B", ...
Labels(w) == [p \in 1..w |-> <<UpperCase[p]>>]

\* a frame clean_dataframe is applied to: n rows of width w
Frame(w, kinds) ==
    [columns |-> Labels(w),
     rows    |-> [k \in DOMAIN kinds |-> MkRow(kinds[k], w)]]

\* ---------------------------------------------------------------- state
VARIABLES
    pc,               \* where compile_xlsx_to_csv stands
    xlsx_files,       \* the glob result: <<[name, readable, raw], ...>>
    ready,            \* names of the files in the ready folder
    done,             \* names of the files in the done folder
    file_idx,         \* position of the processing loop in xlsx_files
    read_attempted,   \* names read_excel has been called on
    read_errors,      \* names whose processing raised (logged, skipped)
    all_dataframes,   \* frames collected for the concat
    processed_files,  \* names collected for the move
    combined_df,      \* the concatenated frame
    csv,              \* the output file: "absent", "partial", "complete"
    csv_data,         \* what a complete output file holds
    move_idx,         \* position of the move loop in processed_files
    move_attempted,   \* names shutil.move has been called on
    move_errors,      \* names whose move raised (logged)
    result,           \* "running", "None", "output_file_path", "exception"
    cpc,              \* where clean_dataframe stands
    df,               \* the frame given to clean_dataframe
    header_row_idx,   \* 0-based header row, -1 for None
    cleaned           \* the frame clean_dataframe returns

compile_vars ==
    << pc, xlsx_files, ready, done, file_idx, read_attempted, read_errors,
       all_dataframes, processed_files, combined_df, csv, csv_data, move_idx,
       move_attempted, move_errors, result >>
clean_vars == << cpc, df, header_row_idx, cleaned >>
vars == << compile_vars, clean_vars >>

names(files) == {files[k].name : k \in DOMAIN files}

\* ------------------------------------------------- compile_xlsx_to_csv
\* State on entry: the ready folder holds up to MaxFiles workbooks, the
\* glob lists them in some order, nothing is read, written or moved.
CompileInit ==
    /\ pc = "glob"
    /\ \E n \in 0..MaxFiles : \E held \in [1..n -> Contents] :
          xlsx_files = [k \in 1..n |->
                           [name |-> FileName(k),
                            readable |-> held[k].readable,
                            raw |-> held[k].raw]]
    /\ ready = names(xlsx_files)
    /\ done = {}
    /\ file_idx = 1
    /\ read_attempted = {}
    /\ read_errors = {}
    /\ all_dataframes = <<>>
    /\ processed_files = <<>>
    /\ combined_df = EmptyDF
    /\ csv = "absent"
    /\ csv_data = EmptyDF
    /\ move_idx = 1
    /\ move_attempted = {}
    /\ move_errors = {}
    /\ result = "running"

CleanIdle ==
    /\ cpc = "idle"
    /\ df = EmptyDF
    /\ header_row_idx = -1
    /\ cleaned = EmptyDF

\* `if not xlsx_files: return None`
Glob ==
    /\ pc = "glob"
    /\ IF xlsx_files = <<>>
       THEN pc' = "returned" /\ result' = "None"
       ELSE pc' = "reading" /\ result' = result
    /\ UNCHANGED << xlsx_files, ready, done, file_idx, read_attempted,
                    read_errors, all_dataframes, processed_files, combined_df,
                    csv, csv_data, move_idx, move_attempted, move_errors >>
    /\ UNCHANGED clean_vars

\* A mutated step: the cleaning call is made.
df_cleaned_with_cleaning(frame) == clean_dataframe(frame)

\* `df_cleaned = df`: the call of clean_dataframe is commented out
df_cleaned_of(frame) == frame

\* A mutated test: every frame read is kept.
has_data_always(df_cleaned) == TRUE

\* `if df_cleaned is not None and not df_cleaned.empty`
has_data(df_cleaned) == ~empty(df_cleaned)

\* A mutated handler: the exception ends the loop (break).
after_read_error_break(idx, n) == n + 1

\* `except Exception ... continue`: the loop goes on with the next file
after_read_error(idx, n) == idx + 1

\* one iteration of `for xlsx_file in xlsx_files`
ProcessFile ==
    /\ pc = "reading"
    /\ file_idx <= Len(xlsx_files)
    /\ LET xlsx_file == xlsx_files[file_idx]
       IN  /\ read_attempted' = read_attempted \cup {xlsx_file.name}
           /\ IF ~xlsx_file.readable
              THEN /\ read_errors' = read_errors \cup {xlsx_file.name}
                   /\ file_idx' = after_read_error(file_idx, Len(xlsx_files))
                   /\ UNCHANGED << all_dataframes, processed_files >>
              ELSE LET df_cleaned == df_cleaned_of(read_excel(xlsx_file.raw))
                   IN  /\ IF has_data(df_cleaned)
                          THEN /\ all_dataframes' =
                                     Append(all_dataframes,
                                            with_source_file(df_cleaned,
                                                             xlsx_file.name))
                               /\ processed_files' =
                                     Append(processed_files, xlsx_file.name)
                          ELSE UNCHANGED << all_dataframes, processed_files >>
                       /\ file_idx' = file_idx + 1
                       /\ UNCHANGED read_errors
    /\ UNCHANGED << pc, xlsx_files, ready, done, combined_df, csv, csv_data,
                    move_idx, move_attempted, move_errors, result >>
    /\ UNCHANGED clean_vars

\* A mutated test: the empty batch is not noticed.
no_dataframes_never(dfs) == FALSE

\* `if not all_dataframes`
no_dataframes(dfs) == dfs = <<>>

\* after the loop: `return None` for an empty batch, else pd.concat
Combine ==
    /\ pc = "reading"
    /\ file_idx > Len(xlsx_files)
    /\ IF no_dataframes(all_dataframes)
       THEN /\ pc' = "returned"
            /\ result' = "None"
            /\ UNCHANGED combined_df
       ELSE /\ pc' = "write"
            /\ combined_df' = pd_concat(all_dataframes)
            /\ UNCHANGED result
    /\ UNCHANGED << xlsx_files, ready, done, file_idx, read_attempted,
                    read_errors, all_dataframes, processed_files, csv,
                    csv_data, move_idx, move_attempted, move_errors >>
    /\ UNCHANGED clean_vars

\* combined_df.to_csv(output_file_path): the file is created and filled ...
BeginWrite ==
    /\ pc = "write"
    /\ pc' = "writing"
    /\ csv' = "partial"
    /\ UNCHANGED << xlsx_files, ready, done, file_idx, read_attempted,
                    read_errors, all_dataframes, processed_files, combined_df,
                    csv_data, move_idx, move_attempted, move_errors, result >>
    /\ UNCHANGED clean_vars

\* ... and closed with everything in it
FinishWrite ==
    /\ pc = "writing"
    /\ pc' = "moving"
    /\ csv' = "complete"
    /\ csv_data' = combined_df
    /\ UNCHANGED << xlsx_files, ready, done, file_idx, read_attempted,
                    read_errors, all_dataframes, processed_files, combined_df,
                    move_idx, move_attempted, move_errors, result >>
    /\ UNCHANGED clean_vars

\* to_csv raises, before the file exists or with part of it written: the
\* call is in no try block, the exception leaves compile_xlsx_to_csv
WriteRaises ==
    /\ pc \in {"write", "writing"}
    /\ pc' = "raised"
    /\ result' = "exception"
    /\ UNCHANGED << xlsx_files, ready, done, file_idx, read_attempted,
                    read_errors, all_dataframes, processed_files, combined_df,
                    csv, csv_data, move_idx, move_attempted, move_errors >>
    /\ UNCHANGED clean_vars

\* A mutated handler: a failed move ends the move loop.
after_move_error_break(idx, n) == n + 1

\* `except Exception as e: print(...)`: the loop goes on with the next file
after_move_error(idx, n) == idx + 1

\* one iteration of `for xlsx_file in processed_files`, taken while pc is
\* one of `at`
MoveFileAt(at) ==
    /\ pc \in at
    /\ move_idx <= Len(processed_files)
    /\ LET name == processed_files[move_idx]
       IN  /\ move_attempted' = move_attempted \cup {name}
           /\ \/ /\ ready' = ready \ {name}
                 /\ done' = done \cup {name}
                 /\ move_idx' = move_idx + 1
                 /\ UNCHANGED move_errors
              \/ /\ move_errors' = move_errors \cup {name}
                 /\ move_idx' = after_move_error(move_idx, Len(processed_files))
                 /\ UNCHANGED << ready, done >>
    /\ UNCHANGED << pc, xlsx_files, file_idx, read_attempted, read_errors,
                    all_dataframes, processed_files, combined_df, csv,
                    csv_data, result >>
    /\ UNCHANGED clean_vars

\* A mutated move loop: it runs ahead of the to_csv call.
MoveFileEarly == MoveFileAt({"write", "moving"})

\* the move loop stands after to_csv
MoveFile == MoveFileAt({"moving"})

\* `return str(output_file_path)`
Return ==
    /\ pc = "moving"
    /\ move_idx > Len(processed_files)
    /\ pc' = "returned"
    /\ result' = "output_file_path"
    /\ UNCHANGED << xlsx_files, ready, done, file_idx, read_attempted,
                    read_errors, all_dataframes, processed_files, combined_df,
                    csv, csv_data, move_idx, move_attempted, move_errors >>
    /\ UNCHANGED clean_vars

Init == CompileInit /\ CleanIdle

Next ==
    \/ Glob
    \/ ProcessFile
    \/ Combine
    \/ BeginWrite
    \/ FinishWrite
    \/ WriteRaises
    \/ MoveFile
    \/ Return

Spec == Init /\ [][Next]_vars

\* ------------------------------------------- clean_dataframe, step by step
CompileIdle ==
    /\ pc = "idle"
    /\ xlsx_files = <<>>
    /\ ready = {}
    /\ done = {}
    /\ file_idx = 1
    /\ read_attempted = {}
    /\ read_errors = {}
    /\ all_dataframes = <<>>
    /\ processed_files = <<>>
    /\ combined_df = EmptyDF
    /\ csv = "absent"
    /\ csv_data = EmptyDF
    /\ move_idx = 1
    /\ move_attempted = {}
    /\ move_errors = {}
    /\ result = "running"

CleanInit ==
    /\ cpc = "called"
    /\ \E w \in 1..MaxCols : \E n \in 0..MaxRows :
          \E kinds \in [1..n -> RowKinds] : df = Frame(w, kinds)
    /\ header_row_idx = -1
    /\ cleaned = EmptyDF

\* `if df.empty: return df`
ReturnEmpty ==
    /\ cpc = "called"
    /\ empty(df)
    /\ cpc' = "returned_empty"
    /\ cleaned' = df
    /\ UNCHANGED << df, header_row_idx >>
    /\ UNCHANGED compile_vars

\* the search loop over df.iterrows()
SearchHeader ==
    /\ cpc = "called"
    /\ ~empty(df)
    /\ cpc' = "searched"
    /\ header_row_idx' = search_header(df.rows, 0)
    /\ UNCHANGED << df, cleaned >>
    /\ UNCHANGED compile_vars

\* `if header_row_idx is not None:` ... return data_df
HeaderFound ==
    /\ cpc = "searched"
    /\ header_row_idx # -1
    /\ cpc' = "returned_header"
    /\ cleaned' = header_found_branch(df, header_row_idx)
    /\ UNCHANGED << df, header_row_idx >>
    /\ UNCHANGED compile_vars

\* `else:` ... return clean_df
NoHeader ==
    /\ cpc = "searched"
    /\ header_row_idx = -1
    /\ cpc' = "returned_general"
    /\ cleaned' = no_header_branch(df)
    /\ UNCHANGED << df, header_row_idx >>
    /\ UNCHANGED compile_vars

InitClean == CompileIdle /\ CleanInit

NextClean ==
    \/ ReturnEmpty
    \/ SearchHeader
    \/ HeaderFound
    \/ NoHeader

SpecClean == InitClean /\ [][NextClean]_vars

\* ------------------------------------------------------------- claims
\* pd.concat has run: combined_df is the merged table
Combined ==
    \/ pc \in {"write", "writing", "moving", "raised"}
    \/ pc = "returned" /\ result = "output_file_path"

\* the file record of a name
FileOf(name) == xlsx_files[CHOOSE k \in DOMAIN xlsx_files : xlsx_files[k].name = name]

\* the table a file yields when it is read (before source_file is added)
TableOf(file) == read_excel(file.raw)

\* a file that cannot be read, or whose table is empty
Unreadable(file) == ~file.readable
YieldsNothing(file) == file.readable /\ empty(TableOf(file))

\* the glob returned exactly these sheets, all readable, in this order
Holds(sheets) ==
    /\ Len(xlsx_files) = Len(sheets)
    /\ \A k \in DOMAIN sheets :
          xlsx_files[k].readable /\ xlsx_files[k].raw = sheets[k]

\* C1: no input file is moved to the done folder before the combined output
\* file has been completely written; while the write has not completed
\* (not started, under way, failed or crashed half-way) every input file is
\* still in the ready folder.
C1_NoMoveBeforeOutputWritten ==
    /\ (move_attempted # {} \/ done # {}) => csv = "complete"
    /\ csv # "complete" => ready = names(xlsx_files) /\ done = {}

\* C1 witness: to_csv failed half-way with two files waiting to be moved.
C1_WriteFailedMidway ==
    /\ pc = "raised"
    /\ csv = "partial"
    /\ Len(processed_files) >= 2
    /\ ready = names(xlsx_files)

\* C2: when no sheet survives (no input files, or every file is unreadable
\* or yields an empty table) the run cannot leave by an exception, it ends
\* with the result None, and no output file is written and no file is moved.
C2_EmptyBatchIsNoOp ==
    (\A k \in DOMAIN xlsx_files :
        Unreadable(xlsx_files[k]) \/ YieldsNothing(xlsx_files[k]))
    => /\ pc \in {"glob", "reading", "returned"}
       /\ pc = "returned" => result = "None"
       /\ pc # "returned" => result = "running" /\ ENABLED Next
       /\ csv = "absent"
       /\ move_attempted = {}
       /\ done = {}
       /\ ready = names(xlsx_files)

\* C2 witness: a run over an unreadable file and an empty sheet returned None.
C2_ReturnedNoneAfterFiles ==
    /\ pc = "returned"
    /\ result = "None"
    /\ \E k \in DOMAIN xlsx_files : Unreadable(xlsx_files[k])
    /\ \E k \in DOMAIN xlsx_files : YieldsNothing(xlsx_files[k])

\* the frames of a run over `files`, none of which fails
FramesOf(files) ==
    LET yields(file) == ~empty(TableOf(file))
        kept == SelectSeq(files, yields)
    IN  [k \in DOMAIN kept |-> with_source_file(TableOf(kept[k]), kept[k].name)]

\* xlsx_files with the failing files absent
WithoutFailing ==
    LET reads(file) == file.readable IN SelectSeq(xlsx_files, reads)

\* C3: a failure while reading one file never aborts the batch: read_excel
\* is called on every file of the list, in order, and the frames collected
\* and the combined table are those of a run over the list with the failing
\* files absent.
C3_ReadFailureIsolated ==
    /\ pc = "reading" =>
          read_attempted = {xlsx_files[k].name : k \in 1..(file_idx - 1)}
    /\ pc \notin {"glob", "reading"} /\ xlsx_files # <<>> =>
          /\ read_attempted = names(xlsx_files)
          /\ read_errors = {f.name : f \in {g \in Range(xlsx_files) : Unreadable(g)}}
          /\ all_dataframes = FramesOf(WithoutFailing)
    /\ Combined => combined_df = pd_concat(FramesOf(WithoutFailing))
    /\ csv = "complete" => csv_data = pd_concat(FramesOf(WithoutFailing))

\* C3 witness: the first file failed and two later files are in the output.
C3_FailureThenTwoFrames ==
    /\ csv = "complete"
    /\ Unreadable(xlsx_files[1])
    /\ Len(all_dataframes) = 2

\* C4: a failed move does not abort the remaining moves and does not roll
\* back the output: the move loop cannot leave by an exception, and when the
\* run returns a move was attempted for every processed file, every file
\* whose move did not fail is in the done folder, the complete output file
\* remains and the result is the output path.
C4_MoveFailureIsolated ==
    /\ pc = "moving" => csv = "complete" /\ ENABLED Next
    /\ pc = "returned" /\ result # "None" =>
          /\ result = "output_file_path"
          /\ move_attempted = Range(processed_files)
          /\ done = Range(processed_files) \ move_errors
          /\ ready = names(xlsx_files) \ done
          /\ csv = "complete"
          /\ csv_data = combined_df

\* C4 witness: the first move failed, the second succeeded, the run returned.
C4_FailedThenMoved ==
    /\ pc = "returned"
    /\ Len(processed_files) >= 2
    /\ processed_files[1] \in move_errors
    /\ processed_files[2] \in done

\* the columns the k-th collected frame has in the merge
OwnColumns(k) == all_dataframes[k].columns

\* the frame and the position at which a merged column is first seen
FirstFrame(c) ==
    CHOOSE k \in DOMAIN all_dataframes :
        /\ c \in Range(OwnColumns(k))
        /\ \A m \in 1..(k - 1) : c \notin Range(OwnColumns(m))
FirstSeenBefore(a, b) ==
    \/ FirstFrame(a) < FirstFrame(b)
    \/ /\ FirstFrame(a) = FirstFrame(b)
       /\ ColPos(OwnColumns(FirstFrame(a)), a) < ColPos(OwnColumns(FirstFrame(a)), b)

\* number of merged rows that come from the frames before the k-th
RECURSIVE RowsBefore(_)
RowsBefore(k) ==
    IF k <= 1 THEN 0 ELSE RowsBefore(k - 1) + Len(all_dataframes[k - 1].rows)

\* every merged row holds its frame's value in the frame's own columns and
\* NaN in every other merged column
NullFilled ==
    /\ Len(combined_df.rows) = RowsBefore(Len(all_dataframes) + 1)
    /\ \A k \in DOMAIN all_dataframes : \A r \in DOMAIN all_dataframes[k].rows :
          \A c \in DOMAIN combined_df.columns :
             LET label == combined_df.columns[c]
                 pos == ColPos(OwnColumns(k), label)
                 cell == combined_df.rows[RowsBefore(k) + r][c]
             IN  IF pos = 0 THEN cell = NaN
                 ELSE cell = all_dataframes[k].rows[r][pos]

C6_FirstQualifyingRow ==
    cpc \in {"searched", "returned_header", "returned_general"} =>
       LET qualifies(k) == indicators_found(df.rows[k]) >= 2
       IN  IF \E k \in DOMAIN df.rows : qualifies(k)
           THEN /\ header_row_idx + 1 \in DOMAIN df.rows
                /\ qualifies(header_row_idx + 1)
                /\ \A k \in 1..header_row_idx : ~qualifies(k)
                /\ cpc # "returned_general"
           ELSE /\ header_row_idx = -1
                /\ cpc # "returned_header"

\* C6 witness: the second row was chosen after a one-indicator row, and a
\* later row matches more indicators than the chosen one.
C6_SecondRowChosenNotBest ==
    /\ cpc = "returned_header"
    /\ header_row_idx = 1
    /\ indicators_found(df.rows[1]) = 1
    /\ Len(df.rows) = 3
    /\ indicators_found(df.rows[3]) > indicators_found(df.rows[2])

\* a cell contains a keyword of the list as a case-insensitive substring
MatchesAnyCase(cell, keywords) ==
    \E k \in DOMAIN keywords : contains(upper(str(cell)), upper(keywords[k]))

\* C7: with the header at row index k the result has row k's values as
\* columns and, as data rows, exactly the rows after k, in order, that are
\* not entirely empty and whose first-column value contains no metadata
\* keyword as a case-insensitive substring.
C7_HeaderBranchRows ==
    cpc = "returned_header" =>
       LET after == SubSeq(df.rows, header_row_idx + 2, Len(df.rows))
           data(row) == /\ \E p \in DOMAIN row : row[p] # NaN
                        /\ ~MatchesAnyCase(row[1], metadata_keywords_header)
       IN  /\ cleaned.columns = df.rows[header_row_idx + 1]
           /\ cleaned.rows = SelectSeq(after, data)

NormalizedFrames ==
    LET table(file) == clean_dataframe(TableOf(file))
        yields(file) == file.readable /\ ~empty(table(file))
        kept == SelectSeq(xlsx_files, yields)
    IN  [k \in DOMAIN kept |-> with_source_file(table(kept[k]), kept[k].name)]

RECURSIVE DataRowCount(_)
\* number of sheet rows below the first row, over the readable files that
\* have any
DataRowCount(files) ==
    IF files = <<>> THEN 0
    ELSE (IF Head(files).readable /\ Len(Head(files).raw) >= 2
          THEN Len(Head(files).raw) - 1 ELSE 0)
         + DataRowCount(Tail(files))

Contributors(table) ==
    LET pos == ColPos(table.columns, str_source_file)
    IN  IF pos = 0 THEN {} ELSE {table.rows[r][pos] : r \in DOMAIN table.rows}

\* C10: the files the run attempts to move are exactly the files that
\* contributed rows to the combined output; a file that failed to read, or
\* whose table was empty, is never moved and stays in the ready folder.
C10_MovedAreContributors ==
    /\ move_attempted \subseteq Contributors(csv_data)
    /\ pc = "returned" /\ result = "output_file_path" =>
          move_attempted = Contributors(csv_data)
    /\ \A k \in DOMAIN xlsx_files :
          Unreadable(xlsx_files[k]) \/ YieldsNothing(xlsx_files[k]) =>
             /\ xlsx_files[k].name \in ready
             /\ xlsx_files[k].name \notin move_attempted \cup done

\* C10 witness: the run returned having moved a file while an unreadable
\* file and an empty one stayed in the ready folder.
C10_SkippedFilesStay ==
    /\ pc = "returned"
    /\ done # {}
    /\ \E k \in DOMAIN xlsx_files :
          Unreadable(xlsx_files[k]) /\ xlsx_files[k].name \in ready
    /\ \E k \in DOMAIN xlsx_files :
          YieldsNothing(xlsx_files[k]) /\ xlsx_files[k].name \in ready

====
